---- MODULE Spec2Model ----
(***************************************************************************)
(* Model of wonnx::Session (wonnx/src/lib.rs): construction of a Session   *)
(* from a path, from bytes or from a parsed ONNX model, and inference      *)
(* through Session::run.                                                   *)
(*                                                                         *)
(* A construction call is followed through its steps: reading the file,    *)
(* deserializing the model, requesting the device/queue, scanning the      *)
(* opset imports, building the IR, optimizing it and compiling it.  The    *)
(* stages that live in other modules of the crate (ir, optimizer, gpu,     *)
(* resource) appear by their outcome, success or error, which is an input  *)
(* of the call.  GpuModel::from and GpuModel::infer are followed as the     *)
(* design document describes them: a compiled program is a sequence of     *)
(* Steps over buffers it owns, and infer validates, uploads and submits,   *)
(* suspends while the device executes, and reads the output buffer back.   *)
(***************************************************************************)
EXTENDS Integers, Sequences, FiniteSets, TLC

\* ---------------------------------------------------------------- bounds
MaxImports == 3        \* longest opset import list of a model
MaxSessions == 2       \* Sessions constructed in one behaviour
MaxRuns == 2           \* run calls that may be in flight at once

\* ---------------------------------------------------------------- inputs
Domains == {"", "ai.onnx.ml", "com.microsoft"}
Versions == {12, 13}
\* onnx::OperatorSetIdProto: a (domain, version) pair
OpsetImports == [domain : Domains, version : Versions]
\* onnx::ModelProto, reduced to its opset import list
Models == UNION {[1..n -> OpsetImports] : n \in 0..MaxImports}
\* the models used where inference is followed: at most one import
RunModels == {m \in Models : Len(m) <= 1 /\ \A i \in 1..Len(m) : m[i].version = 12}

\* Option<i64>: None is <<>>, Some(v) is <<v>>
None == <<>>
Some(v) == <<v>>

\* ---------------------------------------------------------------- errors
\* SessionError, every variant in one record shape
SessionError(kind) == [kind |-> kind, versions |-> <<>>, domain |-> ""]
DuplicateOnnxOpsetSwapped(a, b) == [kind |-> "DuplicateOnnxOpset", versions |-> <<b, a>>, domain |-> ""]
DuplicateOnnxOpset(a, b) == [kind |-> "DuplicateOnnxOpset", versions |-> <<a, b>>, domain |-> ""]
UnknownOpset(d) == [kind |-> "UnknownOpset", versions |-> <<>>, domain |-> d]
UnknownOnnxOpsetVersion == SessionError("UnknownOnnxOpsetVersion")
NoError == SessionError("")

\* ------------------------------------------------- opset validation (pure)
\* The for loop of from_model over model.get_opset_import(), from entry i on,
\* with the loop variable onnx_opset_version.  The result is either the
\* error of the early return or the version found when the list is exhausted.
\* variant: a later version of the standard opset replaces the earlier one
RECURSIVE ScanOpsetImportLastWins(_, _, _)
ScanOpsetImportLastWins(imports, i, onnx_opset_version) ==
    IF i > Len(imports)
    THEN [err |-> NoError, version |-> onnx_opset_version]
    ELSE IF imports[i].domain = ""
         THEN ScanOpsetImportLastWins(imports, i + 1, Some(imports[i].version))
         ELSE [err |-> UnknownOpset(imports[i].domain), version |-> onnx_opset_version]

\* variant: imports of other domains are skipped
RECURSIVE ScanOpsetImportSkipUnknown(_, _, _)
ScanOpsetImportSkipUnknown(imports, i, onnx_opset_version) ==
    IF i > Len(imports)
    THEN [err |-> NoError, version |-> onnx_opset_version]
    ELSE IF imports[i].domain = ""
         THEN IF onnx_opset_version # None /\ imports[i].version # onnx_opset_version[1]
              THEN [err |-> DuplicateOnnxOpset(onnx_opset_version[1], imports[i].version),
                    version |-> onnx_opset_version]
              ELSE ScanOpsetImportSkipUnknown(imports, i + 1, Some(imports[i].version))
         ELSE ScanOpsetImportSkipUnknown(imports, i + 1, onnx_opset_version)

\* variant: any second import of the standard opset is a duplicate
RECURSIVE ScanOpsetImportStrict(_, _, _)
ScanOpsetImportStrict(imports, i, onnx_opset_version) ==
    IF i > Len(imports)
    THEN [err |-> NoError, version |-> onnx_opset_version]
    ELSE IF imports[i].domain = ""
         THEN IF onnx_opset_version # None
              THEN [err |-> DuplicateOnnxOpset(onnx_opset_version[1], imports[i].version),
                    version |-> onnx_opset_version]
              ELSE ScanOpsetImportStrict(imports, i + 1, Some(imports[i].version))
         ELSE [err |-> UnknownOpset(imports[i].domain), version |-> onnx_opset_version]

RECURSIVE ScanOpsetImport(_, _, _)
ScanOpsetImport(imports, i, onnx_opset_version) ==
    IF i > Len(imports)
    THEN [err |-> NoError, version |-> onnx_opset_version]
    ELSE LET opset_import == imports[i] IN
         IF opset_import.domain = ""
         THEN IF onnx_opset_version # None
              THEN IF opset_import.version # onnx_opset_version[1]
                   THEN [err |-> DuplicateOnnxOpset(onnx_opset_version[1], opset_import.version),
                         version |-> onnx_opset_version]
                   ELSE ScanOpsetImport(imports, i + 1, onnx_opset_version)
              ELSE ScanOpsetImport(imports, i + 1, Some(opset_import.version))
         ELSE [err |-> UnknownOpset(opset_import.domain), version |-> onnx_opset_version]

\* let onnx_opset_version = onnx_opset_version.ok_or(UnknownOnnxOpsetVersion)?
\* variant: a missing version defaults to version 0
OkOrDefault(scan) ==
    IF scan.err # NoError THEN scan
    ELSE IF scan.version = None
         THEN [err |-> NoError, version |-> Some(0)]
         ELSE scan

OkOr(scan) ==
    IF scan.err # NoError THEN scan
    ELSE IF scan.version = None
         THEN [err |-> UnknownOnnxOpsetVersion, version |-> None]
         ELSE scan

\* The whole opset validation of from_model
ValidateOpset(model) == OkOr(ScanOpsetImport(model, 1, None))

\* ------------------------------------------------------------------ state
VARIABLES
    pc,                  \* position of the construction call in progress
    entry,               \* the function the caller entered: from_path, from_bytes, from_model
    model,               \* Option<ModelProto>: the parsed model of the call
    onnx_opset_version,  \* the local of from_model after validation, Option<i64>
    trace,               \* the steps the call has taken, each with its outcome
    result,              \* the Result<Session, SessionError> the call returned
    sessions,            \* the Sessions constructed so far
    next_buffer,         \* the next unallocated GPU buffer
    runs                 \* the run calls in progress, by caller

vars == <<pc, entry, model, onnx_opset_version, trace, result, sessions,
          next_buffer, runs>>
callVars == <<pc, entry, model, onnx_opset_version, trace, result>>

\* Result<Session, SessionError>
NoResult == [kind |-> "None", session |-> 0, err |-> NoError]
Ok(s) == [kind |-> "Ok", session |-> s, err |-> NoError]
Err(e) == [kind |-> "Err", session |-> 0, err |-> e]

Step(stage, ok) == [stage |-> stage, ok |-> ok]

\* ------------------------------------------------------ compiled program
\* GpuModel::from(ir, device, queue, onnx_opset_version): the compiled
\* program, an ordered sequence of Steps over buffers the program owns.
\* The graph is a chain of two elementwise activations, x -> Relu -> Relu -> y,
\* with one input, one intermediate and one output buffer.
GpuModelFrom(first_buffer, version) ==
    [input_name |-> "x",
     output_name |-> "y",
     input |-> first_buffer,
     output |-> first_buffer + 2,
     steps |-> <<[shader |-> "Relu", read |-> first_buffer, write |-> first_buffer + 1],
                 [shader |-> "Relu", read |-> first_buffer + 1, write |-> first_buffer + 2]>>,
     opset |-> version]

\* the buffers a compiled program owns
Buffers(gpu_model) ==
    {gpu_model.input, gpu_model.output}
        \cup {gpu_model.steps[i].read : i \in 1..Len(gpu_model.steps)}
        \cup {gpu_model.steps[i].write : i \in 1..Len(gpu_model.steps)}

\* variant: every Session shares the program compiled first
NewSessionShared(gpu_model) ==
    IF sessions # <<>> THEN sessions[1] ELSE [gpu_model |-> gpu_model]

\* Ok(Session { gpu_model }): the Session owns the program compiled by this call
NewSession(gpu_model) == [gpu_model |-> gpu_model]

\* ------------------------------------------------------------------- Init
\* Result<HashMap<String, Vec<f32>>, SessionError> of run
NoRunResult == [kind |-> "None", outputs |-> {}, err |-> NoError, cause |-> ""]
RunOk(outputs) == [kind |-> "Ok", outputs |-> outputs, err |-> NoError, cause |-> ""]
\* `?` on the GpuError of infer: From<GpuError> for SessionError
RunErr(cause) == [kind |-> "Err", outputs |-> {}, err |-> SessionError("GpuError"), cause |-> cause]

\* a caller with no run call in progress
Idle == [pc |-> "idle", session |-> 0, inputs |-> "", accessed |-> {},
         after_failure |-> FALSE, result |-> NoRunResult]

Init ==
    /\ pc = "idle"
    /\ entry = ""
    /\ model = None
    /\ onnx_opset_version = None
    /\ trace = <<>>
    /\ result = NoResult
    /\ sessions = <<>>
    /\ next_buffer = 1
    /\ runs = [r \in 1..MaxRuns |-> Idle]

\* ----------------------------------------------------------- construction
\* the call ends with an error: `return Err(..)` or `?`
Fail(step, e) ==
    /\ pc' = "done"
    /\ trace' = Append(trace, step)
    /\ result' = Err(e)

\* Session::from_path(path)
from_path ==
    /\ pc = "idle"
    /\ Len(sessions) < MaxSessions
    /\ pc' = "read"
    /\ entry' = "from_path"
    /\ model' = None
    /\ onnx_opset_version' = None
    /\ trace' = <<>>
    /\ result' = NoResult
    /\ UNCHANGED <<sessions, next_buffer, runs>>

\* std::fs::read(path)?
ReadFile ==
    /\ pc = "read"
    /\ \E ok \in BOOLEAN :
          IF ok
          THEN /\ pc' = "parse"
               /\ trace' = Append(trace, Step("read", TRUE))
               /\ UNCHANGED result
          ELSE Fail(Step("read", FALSE), SessionError("ModelReadingError"))
    /\ UNCHANGED <<entry, model, onnx_opset_version, sessions, next_buffer, runs>>

\* variant: the device/queue is requested before the bytes are parsed
from_bytesDeviceFirst ==
    /\ pc = "idle"
    /\ Len(sessions) < MaxSessions
    /\ pc' = "parse"
    /\ entry' = "from_bytes"
    /\ model' = None
    /\ onnx_opset_version' = None
    /\ trace' = <<Step("request_device_queue", TRUE)>>
    /\ result' = NoResult
    /\ UNCHANGED <<sessions, next_buffer, runs>>

\* Session::from_bytes(bytes)
from_bytes ==
    /\ pc = "idle"
    /\ Len(sessions) < MaxSessions
    /\ pc' = "parse"
    /\ entry' = "from_bytes"
    /\ model' = None
    /\ onnx_opset_version' = None
    /\ trace' = <<>>
    /\ result' = NoResult
    /\ UNCHANGED <<sessions, next_buffer, runs>>

\* onnx::ModelProto::parse_from_bytes(..)?, then Session::from_model(model)
ParseFromBytes(ms) ==
    /\ pc = "parse"
    /\ \/ \E m \in ms :
            /\ model' = Some(m)
            /\ pc' = "from_model"
            /\ trace' = Append(trace, Step("parse", TRUE))
            /\ UNCHANGED result
       \/ /\ Fail(Step("parse", FALSE), SessionError("ModelDeserializationError"))
          /\ UNCHANGED model
    /\ UNCHANGED <<entry, onnx_opset_version, sessions, next_buffer, runs>>

\* Session::from_model(model), called by the user
from_model(ms) ==
    /\ pc = "idle"
    /\ Len(sessions) < MaxSessions
    /\ \E m \in ms : model' = Some(m)
    /\ pc' = "from_model"
    /\ entry' = "from_model"
    /\ onnx_opset_version' = None
    /\ trace' = <<>>
    /\ result' = NoResult
    /\ UNCHANGED <<sessions, next_buffer, runs>>

\* let (device, queue) = resource::request_device_queue().await
RequestDeviceQueue ==
    /\ pc = "from_model"
    /\ pc' = "opset"
    /\ trace' = Append(trace, Step("request_device_queue", TRUE))
    /\ UNCHANGED <<entry, model, onnx_opset_version, result, sessions, next_buffer, runs>>

\* the scan of the opset imports and the ok_or that follows it
OpsetValidation ==
    /\ pc = "opset"
    /\ LET v == ValidateOpset(model[1]) IN
          IF v.err # NoError
          THEN /\ Fail(Step("opset", FALSE), v.err)
               /\ UNCHANGED onnx_opset_version
          ELSE /\ pc' = "ir"
               /\ onnx_opset_version' = v.version
               /\ trace' = Append(trace, Step("opset", TRUE))
               /\ UNCHANGED result
    /\ UNCHANGED <<entry, model, sessions, next_buffer, runs>>

\* variant: an IR error is dropped and construction goes on
IrFromModelSwallowed ==
    /\ pc = "ir"
    /\ \E ok \in BOOLEAN :
          /\ pc' = "optimize"
          /\ trace' = Append(trace, Step("ir", ok))
          /\ UNCHANGED result
    /\ UNCHANGED <<entry, model, onnx_opset_version, sessions, next_buffer, runs>>

\* ir::Node::from_model(&model)?
IrFromModel ==
    /\ pc = "ir"
    /\ \E ok \in BOOLEAN :
          IF ok
          THEN /\ pc' = "optimize"
               /\ trace' = Append(trace, Step("ir", TRUE))
               /\ UNCHANGED result
          ELSE Fail(Step("ir", FALSE), SessionError("IrError"))
    /\ UNCHANGED <<entry, model, onnx_opset_version, sessions, next_buffer, runs>>

\* optimizer.optimize(..)?
Optimize ==
    /\ pc = "optimize"
    /\ \E ok \in BOOLEAN :
          IF ok
          THEN /\ pc' = "compile"
               /\ trace' = Append(trace, Step("optimize", TRUE))
               /\ UNCHANGED result
          ELSE Fail(Step("optimize", FALSE), SessionError("OptimizerError"))
    /\ UNCHANGED <<entry, model, onnx_opset_version, sessions, next_buffer, runs>>

\* GpuModel::from(ir, device, queue, onnx_opset_version)?; Ok(Session { gpu_model })
Compile ==
    /\ pc = "compile"
    /\ \/ LET gpu_model == GpuModelFrom(next_buffer, onnx_opset_version[1]) IN
            /\ sessions' = Append(sessions, NewSession(gpu_model))
            /\ next_buffer' = next_buffer + Cardinality(Buffers(gpu_model))
            /\ pc' = "done"
            /\ trace' = Append(trace, Step("compile", TRUE))
            /\ result' = Ok(Len(sessions) + 1)
       \/ /\ Fail(Step("compile", FALSE), SessionError("GpuError"))
          /\ UNCHANGED <<sessions, next_buffer>>
    /\ UNCHANGED <<entry, model, onnx_opset_version, runs>>

\* the caller takes the result; the next construction may start
Return ==
    /\ pc = "done"
    /\ pc' = "idle"
    /\ entry' = ""
    /\ model' = None
    /\ onnx_opset_version' = None
    /\ trace' = <<>>
    /\ result' = NoResult
    /\ UNCHANGED <<sessions, next_buffer, runs>>

\* -------------------------------------------------------------- inference
\* The inputs a caller passes to run: the name of the one tensor of the map
Inputs == {"x", "bogus"}

\* variant: every run call works on buffers of its own
SelfGpuModelPerCall(s, r) ==
    GpuModelFrom(next_buffer + r * Cardinality(Buffers(sessions[s].gpu_model)),
                 sessions[s].gpu_model.opset)

\* self.gpu_model: the program a run call r on Session s works on
SelfGpuModel(s, r) == sessions[s].gpu_model

\* variant: a failed run call tears the compiled program down
SelfAfterRunPoisoned(s, res) ==
    IF res.kind = "Err"
    THEN [gpu_model |-> [sessions[s].gpu_model EXCEPT !.steps = <<>>]]
    ELSE sessions[s]

\* &self: what a run call that ended with res leaves of Session s
SelfAfterRun(s, res) == sessions[s]

\* a run call on Session s has failed and its caller still holds the error
HasFailed(s) ==
    \E q \in 1..MaxRuns :
        runs[q].pc = "done" /\ runs[q].session = s /\ runs[q].result.kind = "Err"

\* the run call r, with the call record `call`, ends with res
Finish(r, call, res) ==
    /\ runs' = [call EXCEPT ![r].pc = "done", ![r].result = res]
    /\ sessions' = [sessions EXCEPT ![call[r].session] = SelfAfterRun(call[r].session, res)]

\* session.run(&inputs) up to the first suspension of infer: validate the
\* inputs, upload them into the reserved buffer and submit the Steps
Run(r, s, inputs) ==
    /\ runs[r].pc = "idle"
    /\ LET gpu_model == SelfGpuModel(s, r)
           call == [runs EXCEPT ![r].session = s, ![r].inputs = inputs,
                                ![r].after_failure = HasFailed(s)]
       IN IF inputs # gpu_model.input_name
          THEN Finish(r, call, RunErr("InvalidInput"))
          ELSE \/ /\ runs' = [call EXCEPT ![r].pc = "submitted",
                                          ![r].accessed = {gpu_model.input}]
                  /\ UNCHANGED sessions
               \/ Finish(r, call, RunErr("Device"))
    /\ UNCHANGED <<callVars, next_buffer>>

\* the device executes the submitted Steps in program order
DeviceExecute(r) ==
    /\ runs[r].pc = "submitted"
    /\ LET steps == SelfGpuModel(runs[r].session, r).steps IN
          runs' = [runs EXCEPT ![r].pc = "executed",
                               ![r].accessed = @ \cup {steps[i].read : i \in 1..Len(steps)}
                                                 \cup {steps[i].write : i \in 1..Len(steps)}]
    /\ UNCHANGED <<callVars, sessions, next_buffer>>

\* infer resumes when the device has completed the submission and copies
\* the output buffer back to the host, or the readback fails
Readback(r) ==
    /\ runs[r].pc = "executed"
    /\ LET gpu_model == SelfGpuModel(runs[r].session, r) IN
          \/ Finish(r, [runs EXCEPT ![r].accessed = @ \cup {gpu_model.output}],
                    RunOk({gpu_model.output_name}))
          \/ Finish(r, runs, RunErr("Device"))
    /\ UNCHANGED <<callVars, next_buffer>>

\* the caller takes the result of run
RunReturn(r) ==
    /\ runs[r].pc = "done"
    /\ runs' = [runs EXCEPT ![r] = Idle]
    /\ UNCHANGED <<callVars, sessions, next_buffer>>

\* construction of Sessions from any model, by any of the three entry points
Next ==
    \/ from_path
    \/ ReadFile
    \/ from_bytes
    \/ ParseFromBytes(Models)
    \/ from_model(Models)
    \/ RequestDeviceQueue
    \/ OpsetValidation
    \/ IrFromModel
    \/ Optimize
    \/ Compile
    \/ Return

Spec == Init /\ [][Next]_vars

\* construction of Sessions from parsed models, and inference on them
NextRun ==
    \/ from_model(RunModels)
    \/ RequestDeviceQueue
    \/ OpsetValidation
    \/ IrFromModel
    \/ Optimize
    \/ Compile
    \/ Return
    \/ \E r \in 1..MaxRuns, s \in 1..Len(sessions), inputs \in Inputs : Run(r, s, inputs)
    \/ \E r \in 1..MaxRuns : DeviceExecute(r)
    \/ \E r \in 1..MaxRuns : Readback(r)
    \/ \E r \in 1..MaxRuns : RunReturn(r)

SpecRun == Init /\ [][NextRun]_vars

\* ======================================================== properties
Min(S) == CHOOSE x \in S : \A y \in S : x <= y

\* positions of the imports of the standard opset, and of other opsets
StdIdx(m) == {i \in 1..Len(m) : m[i].domain = ""}
NonStdIdx(m) == {i \in 1..Len(m) : m[i].domain # ""}
\* positions of the standard imports whose version differs from the first one's
ConflictIdx(m) == {j \in StdIdx(m) : m[j].version # m[Min(StdIdx(m))].version}
\* the model declares two different versions of the standard opset
HasConflict(m) == \E i, j \in StdIdx(m) : m[i].version # m[j].version

\* the construction call has ended and had a parsed model in hand
Ended == pc = "done" /\ model # None
\* the steps of the call that are stages of the pipeline
Pipeline == <<"opset", "ir", "optimize", "compile">>
IsStage(st) == \E k \in 1..Len(Pipeline) : Pipeline[k] = st.stage
Stages == SelectSeq(trace, IsStage)
DeviceRequests == {i \in 1..Len(trace) : trace[i].stage = "request_device_queue"}

\* ---- C1
\* C1 as stated: every finished construction from a model that declares two
\* different versions of the standard opset has failed with DuplicateOnnxOpset.
C1Original ==
    (Ended /\ HasConflict(model[1]))
        => (result.kind = "Err" /\ result.err.kind = "DuplicateOnnxOpset")

\* C1 amended: every finished construction from a model that declares two
\* different versions of the standard opset has failed and produced no
\* Session; the error is DuplicateOnnxOpset when no import of another domain
\* stands before the first conflicting import, and UnknownOpset when one does.
C1Amended ==
    (Ended /\ HasConflict(model[1]))
        => LET m == model[1]
               c == Min(ConflictIdx(m))
           IN /\ result.kind = "Err"
              /\ result.session = 0
              /\ (\A i \in NonStdIdx(m) : i > c) => result.err.kind = "DuplicateOnnxOpset"
              /\ (\E i \in NonStdIdx(m) : i < c) => result.err.kind = "UnknownOpset"

C1Witness ==
    /\ Ended /\ HasConflict(model[1])
    /\ result.err.kind = "DuplicateOnnxOpset"
    /\ entry = "from_bytes"

\* ---- C2
\* C2 as stated: every finished construction from a model that imports an
\* opset of a non-standard domain has failed with UnknownOpset carrying the
\* name of a non-standard domain of the model.
C2Original ==
    (Ended /\ NonStdIdx(model[1]) # {})
        => /\ result.kind = "Err"
           /\ result.err.kind = "UnknownOpset"
           /\ \E i \in NonStdIdx(model[1]) : result.err.domain = model[1][i].domain

\* C2 amended: every finished construction from a model that imports an
\* opset of a non-standard domain has failed and produced no Session; the
\* error is UnknownOpset carrying the first non-standard domain unless two
\* conflicting standard imports stand before it, and then DuplicateOnnxOpset.
C2Amended ==
    (Ended /\ NonStdIdx(model[1]) # {})
        => LET m == model[1]
               u == Min(NonStdIdx(m))
           IN /\ result.kind = "Err"
              /\ result.session = 0
              /\ (\A j \in ConflictIdx(m) : j > u) => result.err = UnknownOpset(m[u].domain)
              /\ (\E j \in ConflictIdx(m) : j < u) => result.err.kind = "DuplicateOnnxOpset"

C2Witness ==
    /\ Ended
    /\ Cardinality({model[1][i].domain : i \in NonStdIdx(model[1])}) = 2
    /\ result.err.kind = "UnknownOpset"

\* ---- C3
\* C3: a finished construction from a model with no opset import has failed
\* with UnknownOnnxOpsetVersion, and neither IR build nor optimization nor
\* compilation was invoked in it.
C3NoImport ==
    (Ended /\ model[1] = <<>>)
        => /\ result = Err(UnknownOnnxOpsetVersion)
           /\ \A i \in 1..Len(trace) : trace[i].stage \notin {"ir", "optimize", "compile"}

C3Witness == Ended /\ model[1] = <<>> /\ entry = "from_path"

\* ---- C4
\* the error a failed stage surfaces
StageError(stage) ==
    CASE stage = "opset" -> ValidateOpset(model[1]).err
      [] stage = "ir" -> SessionError("IrError")
      [] stage = "optimize" -> SessionError("OptimizerError")
      [] stage = "compile" -> SessionError("GpuError")

\* C4: at every point of a construction the stages invoked so far are an
\* initial part of opset validation, IR build, optimize, compile, each once;
\* every stage before the last invoked one succeeded; a failed stage ends the
\* call with that stage's error; the call returns a Session exactly when all
\* four stages were invoked and succeeded; and the set of Sessions grows only
\* by the one Session of a call that returns Ok.
C4StageOrder ==
    /\ Len(Stages) <= Len(Pipeline)
    /\ \A i \in 1..Len(Stages) : Stages[i].stage = Pipeline[i]
    /\ \A i \in 1..Len(Stages) : i < Len(Stages) => Stages[i].ok
    /\ \A i \in 1..Len(Stages) :
          ~Stages[i].ok => (pc = "done" /\ result = Err(StageError(Stages[i].stage)))
    /\ (pc = "done" /\ result.kind = "Err") => ~trace[Len(trace)].ok
    /\ result.kind = "Ok" <=>
          (pc = "done" /\ Len(Stages) = Len(Pipeline) /\ \A i \in 1..Len(Stages) : Stages[i].ok)
    /\ result.kind = "Ok" => result.session = Len(sessions)

C4Pipeline ==
    /\ []C4StageOrder
    /\ [][sessions' # sessions =>
            (result'.kind = "Ok" /\ Len(sessions') = Len(sessions) + 1
             /\ \A i \in 1..Len(sessions) : sessions'[i] = sessions[i])]_vars

C4Witness ==
    /\ pc = "done"
    /\ result = Err(SessionError("OptimizerError"))
    /\ Len(Stages) = 3

\* ---- C8
\* the model references exactly one version of the standard opset
ExactlyOneVersion(m) ==
    /\ Len(m) > 0
    /\ \A i \in 1..Len(m) : m[i].domain = ""
    /\ \A i, j \in 1..Len(m) : m[i].version = m[j].version

\* C8: once opset validation has run, it has passed exactly when the import
\* list is non-empty, all of one (the standard) domain and all of one
\* version; the version kept for the compiler is then that version, and it
\* is the one the compiled program of the returned Session carries.
C8ExactlyOne ==
    (Len(Stages) > 0)
        => /\ Stages[1].ok <=> ExactlyOneVersion(model[1])
           /\ Stages[1].ok => onnx_opset_version = Some(model[1][1].version)
           /\ result.kind = "Ok" =>
                 sessions[result.session].gpu_model.opset = model[1][1].version

C8Witness ==
    /\ pc = "done"
    /\ result.kind = "Ok"
    /\ Len(model[1]) >= 2

\* ---- C9
\* positions of the imports validation rejects: another domain, or a
\* standard import that differs from the first standard one
Offending(m) == NonStdIdx(m) \cup ConflictIdx(m)

\* C9: a finished construction from a model with an offending import has
\* failed with the error of the first offending import in declaration order:
\* UnknownOpset of its domain if it is of another domain, otherwise
\* DuplicateOnnxOpset of the first declared standard version and its own.
C9FirstOffender ==
    (Ended /\ Offending(model[1]) # {})
        => LET m == model[1]
               k == Min(Offending(m))
           IN /\ result.kind = "Err"
              /\ result.session = 0
              /\ m[k].domain # "" =>
                    /\ result.err.kind = "UnknownOpset"
                    /\ result.err.domain = m[k].domain
              /\ m[k].domain = "" =>
                    /\ result.err.kind = "DuplicateOnnxOpset"
                    /\ result.err.versions = <<m[Min(StdIdx(m))].version, m[k].version>>

C9Witness ==
    /\ Ended
    /\ NonStdIdx(model[1]) # {}
    /\ ConflictIdx(model[1]) # {}
    /\ result.err.kind = "DuplicateOnnxOpset"
    /\ result.err.versions[1] < result.err.versions[2]

\* ---- C10
\* C10: at every point of a construction, reading and parsing come before
\* any device request; a call that failed reading or parsing requested no
\* device; every pipeline stage comes after a device request; and a call that
\* went past the device request, whatever its result, requested exactly one.
C10DeviceRequest ==
    /\ \A i \in 1..Len(trace) :
          trace[i].stage \in {"read", "parse"} => \A j \in DeviceRequests : i < j
    /\ result.err.kind \in {"ModelReadingError", "ModelDeserializationError"}
          => DeviceRequests = {}
    /\ \A i \in 1..Len(trace) :
          IsStage(trace[i]) => \E j \in DeviceRequests : j < i
    /\ (model # None /\ pc \notin {"idle", "from_model"}) => Cardinality(DeviceRequests) = 1
    /\ Cardinality(DeviceRequests) <= 1

C10Witness ==
    /\ pc = "done"
    /\ entry = "from_path"
    /\ result = Err(SessionError("IrError"))
    /\ Cardinality(DeviceRequests) = 1

\* ---- C5
\* the run call r was given the inputs the compiled program declares
CorrectInputs(r) == runs[r].inputs = sessions[runs[r].session].gpu_model.input_name

C6Disjoint ==
    /\ \A s1, s2 \in 1..Len(sessions) :
          s1 # s2 => Buffers(sessions[s1].gpu_model) \cap Buffers(sessions[s2].gpu_model) = {}
    /\ \A r \in 1..MaxRuns : \A s \in 1..Len(sessions) :
          (runs[r].pc # "idle" /\ s # runs[r].session)
              => runs[r].accessed \cap Buffers(sessions[s].gpu_model) = {}

C6Witness ==
    \E r1, r2 \in 1..MaxRuns :
        /\ runs[r1].pc = "executed"
        /\ runs[r2].pc = "executed"
        /\ runs[r1].session # runs[r2].session

\* ---- C7
Suspended(r) == runs[r].pc \in {"submitted", "executed"}

\* C7: two run calls suspended at the same time on the same Session have
\* accessed buffers of the one compiled program of that Session: both have
\* written its input buffer, and at the same suspension point both have
\* accessed exactly the same buffers.
C7SharedBuffers ==
    \A r1, r2 \in 1..MaxRuns :
        (r1 # r2 /\ Suspended(r1) /\ Suspended(r2) /\ runs[r1].session = runs[r2].session)
            => LET gpu_model == sessions[runs[r1].session].gpu_model IN
               /\ gpu_model.input \in runs[r1].accessed \cap runs[r2].accessed
               /\ runs[r1].accessed \cup runs[r2].accessed \subseteq Buffers(gpu_model)
               /\ runs[r1].pc = runs[r2].pc => runs[r1].accessed = runs[r2].accessed

C7Witness ==
    \E r1, r2 \in 1..MaxRuns :
        /\ r1 # r2
        /\ runs[r1].pc = "executed"
        /\ runs[r2].pc = "executed"
        /\ runs[r1].session = runs[r2].session

====
